---------------------------- MODULE Spec2Model ----------------------------
(***************************************************************************)
(* A model of displacy-flex: the class DisplaCyFlex                        *)
(* (src/displacy_flex/visualizer.py) and the legacy free-function module   *)
(* (src/DISPLAY/display.py).                                               *)
(*                                                                         *)
(* Python strings are sequences of one-character strings, a span is the    *)
(* pair <<start, end>> of 0-based offsets, a dict is a function, and a     *)
(* call hands back Return(v) for its value v, or Raised when it raises.    *)
(***************************************************************************)
EXTENDS Integers, Sequences, FiniteSets, TLC

VARIABLES
    pc,          \* the position of the caller
    text,        \* the text argument
    highlight,   \* visualize: the annotations, a sequence of <<word, tag>>
    split,       \* visualize: the split flag
    keep,        \* visualize: the keep list, as a set
    tags,        \* the tags list
    words,       \* the words list
    ind,         \* the spans list (indices / ind in the source)
    ret,         \* what the last call handed back
    self,        \* the DisplaCyFlex instance: labels, colors, default_label, alpha
    args,        \* history: the arguments of the last call
    CONFIGURED,  \* display.py's global flag
    options,     \* display.py's global options (Undefined before it is bound)
    firstCall,   \* history: the first config_setup call, its arguments and outcome
    firstDone,   \* history: the arguments of the first config_setup call that returned
    ncalls       \* history: the number of config_setup calls made

vars == <<pc, text, highlight, split, keep, tags, words, ind, ret, self, args,
          CONFIGURED, options, firstCall, firstDone, ncalls>>

-----------------------------------------------------------------------------
(* Bounds of the model *)

MaxTextLen == 3
MaxWords == 3
MaxLen == 3
MaxLabels == 3
MaxFreq == 2
MaxCalls == 3

\* the characters of texts and words: an ordinary one and a regex special one
Alphabet == {"a", "."}
\* the lengths of the words (tokens are never empty)
WordLens == {1, 2}

\* every sequence over S of a length in lens
SeqsOf(S, lens) == UNION {[1..n -> S] : n \in lens}

Texts == SeqsOf(Alphabet, 0..MaxTextLen)
Words == SeqsOf(Alphabet, WordLens)
WordLists == SeqsOf(Words, 0..MaxWords)

\* the inputs of merge and structure
Tags == {"O", "PER", "ORG"}
MergeWords == {<<"a">>, <<"b">>}
Spans == {<<-1, -1>>, <<0, 1>>, <<2, 3>>}
DocTexts == {<<"a", ".", "a">>, <<"a">>}
Titles == {<<>>, <<"T">>}

\* the inputs of a palette: label lists up to MaxLabels, and two lists longer
\* than the 13 colors, whose fourth label is the default label 'Misc'
LabelNames == {"ORG", "LOC", "Misc"}
ManyLabels ==
    <<"ORG", "LOC", "PERSON", "Misc", "GPE", "DATE", "TIME", "MONEY", "NORP",
      "FAC", "EVENT", "LAW", "PRODUCT", "CARDINAL">>
ShortLabelLists == SeqsOf(LabelNames, 0..MaxLabels)
LongLabelLists == {SubSeq(ManyLabels, 1, Len(ManyLabels) - 1), ManyLabels}
\* an optional argument that is given holds its value
Given(v) == [value |-> v]
FreqLists == {Given(f) : f \in SeqsOf(1..MaxFreq, 0..MaxLabels)}
DefaultLabels == {"Misc", "Other"}
Alphas == {"95", "ff"}

\* the inputs of config_setup: numpy arrays of labels and of counts
ConfigLabels == SeqsOf({"ORG", "LOC"}, 0..2)
ConfigFreqs == SeqsOf({1, 2}, 0..2)
Otherwise == {"Address", "ORG"}

\* the inputs of visualize
PipeTags == {"O", "PER"}
Annotations == Words \X PipeTags
Highlights == SeqsOf(Annotations, 0..MaxWords)
Keeps == {{"O"}, {"O", "PER"}}

\* what a call hands back: the value it returns, or that it raised
Return(v) == [raised |-> FALSE, value |-> v]
Raised == [raised |-> TRUE]
\* a global name not bound yet (reading it raises NameError), and Python's None
Undefined == [bound |-> FALSE]
None == [none |-> TRUE]
Invalid == <<-1, -1>>

-----------------------------------------------------------------------------
(* regex: re.escape and re.finditer, for the patterns indices builds *)

MetaChars == {"."}

\* re.escape(word): a backslash before every special character. A pattern is
\* a sequence of atoms, <<"\\", c>> for an escaped character and <<c>> for a
\* bare one.
re_escape(word) ==
    [i \in 1..Len(word) |->
        IF word[i] \in MetaChars THEN <<"\\", word[i]>> ELSE <<word[i]>>]

\* one atom against one character: an escaped character and a bare ordinary
\* character match themselves, a bare "." matches any character
AtomMatches(atom, ch) ==
    IF Len(atom) = 2 THEN ch = atom[2]
    ELSE IF atom[1] = "." THEN TRUE
    ELSE ch = atom[1]

\* the pattern matches the text at offset s (0-based)
MatchesAt(pattern, txt, s) ==
    /\ s + Len(pattern) <= Len(txt)
    /\ \A i \in 1..Len(pattern) : AtomMatches(pattern[i], txt[s + i])

\* re.finditer(pattern, txt), the spans of its matches, scanning from offset
\* p: the leftmost match at or after p, then the scan resumes at that match's
\* end, so the matches never overlap. (Patterns here are never empty.)
RECURSIVE ScanFrom(_, _, _)
ScanFrom(pattern, txt, p) ==
    LET starts == {s \in p..Len(txt) : MatchesAt(pattern, txt, s)}
    IN  IF starts = {} THEN <<>>
        ELSE LET s == CHOOSE m \in starts : \A o \in starts : m <= o
             IN  <<<<s, s + Len(pattern)>>>> \o
                     ScanFrom(pattern, txt, s + Len(pattern))

finditer(pattern, txt) == ScanFrom(pattern, txt, 0)

-----------------------------------------------------------------------------
(* DisplaCyFlex.indices and display.indices *)

\* One pass of the loop body of DisplaCyFlex.indices: the span of the word
\* and the cursor after it.
IndicesStepAdvanceOnMiss(word, txt, base) ==
    LET Keep(m) == m[1] >= base
        matches == SelectSeq(finditer(re_escape(word), txt), Keep)
        span == IF matches # <<>> THEN matches[1] ELSE Invalid
    IN  [span |-> span, base |-> span[2]]

IndicesStep(word, txt, base) ==
    LET Keep(m) == m[1] >= base
        matches == SelectSeq(finditer(re_escape(word), txt), Keep)
        span == IF matches # <<>> THEN matches[1] ELSE Invalid
    IN  [span |-> span,
         base |-> IF span # Invalid THEN span[2] ELSE base]

\* the loop of DisplaCyFlex.indices over ws: the spans and the final cursor
RECURSIVE IndicesLoop(_, _)
IndicesLoop(ws, txt) ==
    IF ws = <<>> THEN [spans |-> <<>>, base |-> 0]
    ELSE LET before == IndicesLoop(SubSeq(ws, 1, Len(ws) - 1), txt)
             step == IndicesStep(ws[Len(ws)], txt, before.base)
         IN  [spans |-> Append(before.spans, step.span), base |-> step.base]

indices(ws, txt) == IndicesLoop(ws, txt).spans

\* display.indices: the same scan, written with an if/else
RECURSIVE LegacyIndicesLoop(_, _)
LegacyIndicesLoop(ws, txt) ==
    IF ws = <<>> THEN [spans |-> <<>>, base |-> 0]
    ELSE LET before == LegacyIndicesLoop(SubSeq(ws, 1, Len(ws) - 1), txt)
             Keep(m) == m[1] >= before.base
             all_spans == SelectSeq(finditer(re_escape(ws[Len(ws)]), txt), Keep)
         IN  IF all_spans # <<>>
             THEN [spans |-> Append(before.spans, all_spans[1]),
                   base |-> all_spans[1][2]]
             ELSE [spans |-> Append(before.spans, Invalid),
                   base |-> before.base]

display_indices(ws, txt) == LegacyIndicesLoop(ws, txt).spans

-----------------------------------------------------------------------------
(* DisplaCyFlex.merge and display.merge *)

Min(a, b) == IF a <= b THEN a ELSE b

Space == <<" ">>

\* the loop of merge with a fold that keeps the buffer's span as it is
RECURSIVE MergeScanKeepsSpan(_, _, _, _)
MergeScanKeepsSpan(t, w, s, n) ==
    IF n <= 1
    THEN [merged_tags |-> <<>>, merged_words |-> <<>>, merged_indices |-> <<>>,
          buffer_word |-> w[1], buffer_tag |-> t[1], buffer_span |-> s[1]]
    ELSE LET b == MergeScanKeepsSpan(t, w, s, n - 1)
         IN  IF t[n] = b.buffer_tag
             THEN [b EXCEPT !.buffer_word = @ \o Space \o w[n]]
             ELSE [merged_tags |-> Append(b.merged_tags, b.buffer_tag),
                   merged_words |-> Append(b.merged_words, b.buffer_word),
                   merged_indices |-> Append(b.merged_indices, b.buffer_span),
                   buffer_word |-> w[n], buffer_tag |-> t[n], buffer_span |-> s[n]]

\* The loop of DisplaCyFlex.merge after the zipped elements 2..n: the three
\* output lists and the buffer. zip stops at the shortest of its arguments.
RECURSIVE MergeScan(_, _, _, _)
MergeScan(t, w, s, n) ==
    IF n <= 1
    THEN [merged_tags |-> <<>>, merged_words |-> <<>>, merged_indices |-> <<>>,
          buffer_word |-> w[1], buffer_tag |-> t[1], buffer_span |-> s[1]]
    ELSE LET b == MergeScan(t, w, s, n - 1)
         IN  IF t[n] = b.buffer_tag
             THEN [b EXCEPT !.buffer_word = @ \o Space \o w[n],
                            !.buffer_span = <<@[1], s[n][2]>>]
             ELSE [merged_tags |-> Append(b.merged_tags, b.buffer_tag),
                   merged_words |-> Append(b.merged_words, b.buffer_word),
                   merged_indices |-> Append(b.merged_indices, b.buffer_span),
                   buffer_word |-> w[n], buffer_tag |-> t[n], buffer_span |-> s[n]]

\* merge without the flush of the last run after the loop
MergeNoFinalFlush(t, w, s) ==
    IF t = <<>> \/ w = <<>> \/ s = <<>> THEN Raised
    ELSE LET b == MergeScan(t, w, s, Min(Len(t), Min(Len(w), Len(s))))
         IN  Return(<<b.merged_tags, b.merged_words, b.merged_indices>>)

\* DisplaCyFlex.merge(tags, words, indices): words[0], tags[0], indices[0]
\* raise IndexError on an empty list; the result is the triple
\* <<merged_tags, merged_words, merged_indices>>
merge(t, w, s) ==
    IF t = <<>> \/ w = <<>> \/ s = <<>> THEN Raised
    ELSE LET b == MergeScan(t, w, s, Min(Len(t), Min(Len(w), Len(s))))
         IN  Return(<<Append(b.merged_tags, b.buffer_tag),
                      Append(b.merged_words, b.buffer_word),
                      Append(b.merged_indices, b.buffer_span)>>)

\* lst[i:i+2] = [x] for a 0-based i: a slice assignment never raises, and
\* past the end of the list it appends
SetSlice2(lst, i, x) ==
    SubSeq(lst, 1, Min(i, Len(lst))) \o <<x>> \o SubSeq(lst, i + 3, Len(lst))

\* ' '.join(lst[i:i+2]) for a 0-based i
JoinSlice2(lst, i) ==
    LET part == SubSeq(lst, i + 1, Min(i + 2, Len(lst)))
    IN  IF Len(part) = 0 THEN <<>>
        ELSE IF Len(part) = 1 THEN part[1]
        ELSE part[1] \o Space \o part[2]

\* msk of display.merge: adjacent tags equal, with False appended
MergeMask(T) ==
    [k \in 1..(IF Len(T) = 0 THEN 1 ELSE Len(T)) |->
        IF k < Len(T) THEN T[k] = T[k + 1] ELSE FALSE]

\* The loop of display.merge after the passes num = 0 .. n-1. The lists are
\* changed in place; ind[i] or ind[i+1] past the end of ind raises
\* IndexError after T and words were changed.
RECURSIVE LegacyMergeLoop(_, _, _, _, _)
LegacyMergeLoop(T0, w0, s0, msk, n) ==
    IF n = 0 THEN [T |-> T0, words |-> w0, ind |-> s0, i |-> 0, raised |-> FALSE]
    ELSE LET b == LegacyMergeLoop(T0, w0, s0, msk, n - 1)
             i == b.i
         IN  IF b.raised THEN b
             ELSE IF msk[n]
             THEN LET T1 == SetSlice2(b.T, i, b.T[i + 1])
                      w1 == SetSlice2(b.words, i, JoinSlice2(b.words, i))
                  IN  IF i + 2 > Len(b.ind)
                      THEN [b EXCEPT !.T = T1, !.words = w1, !.raised = TRUE]
                      ELSE [b EXCEPT !.T = T1, !.words = w1,
                                     !.ind = SetSlice2(b.ind, i,
                                                <<b.ind[i + 1][1], b.ind[i + 2][2]>>)]
             ELSE [b EXCEPT !.i = i + 1]

\* display.merge(tags, words, ind): the state of the lists when it returns
\* or raises
display_merge(t, w, s) ==
    LET msk == MergeMask(t)
    IN  LegacyMergeLoop(t, w, s, msk, Len(msk) - 1)

-----------------------------------------------------------------------------
(* DisplaCyFlex.structure_data and display.structure *)

Ent(start, end, label) == [start |-> start, end |-> end, label |-> label]

\* the comprehension of structure_data over the first n zipped pairs
RECURSIVE StructureEnts(_, _, _)
StructureEnts(t, s, n) ==
    IF n = 0 THEN <<>>
    ELSE LET rest == StructureEnts(t, s, n - 1)
         IN  IF t[n] # "O" /\ s[n][1] >= 0
             THEN Append(rest, Ent(s[n][1], s[n][2], t[n]))
             ELSE rest

structure_data(txt, t, s, title) ==
    Return([text |-> txt,
            ents |-> StructureEnts(t, s, Min(Len(t), Len(s))),
            title |-> title])

\* the comprehension of display.structure over range(n)
RECURSIVE LegacyEnts(_, _, _)
LegacyEnts(t, s, n) ==
    IF n = 0 THEN <<>>
    ELSE LET rest == LegacyEnts(t, s, n - 1)
         IN  IF t[n] # "O"
             THEN Append(rest, Ent(s[n][1], s[n][2], t[n]))
             ELSE rest

\* display.structure(text, tags, ind, title): ind[i] raises IndexError for a
\* kept tag past the end of ind
display_structure(txt, t, s, title) ==
    IF \E i \in 1..Len(t) : t[i] # "O" /\ i > Len(s) THEN Raised
    ELSE Return([text |-> txt, ents |-> LegacyEnts(t, s, Len(t)), title |-> title])

-----------------------------------------------------------------------------
(* The palette: DisplaCyFlex.__init__ and display.config_setup *)

DEFAULT_COLORS ==
    <<"#f8e71c", "#e4e7d2", "#7aecec", "#bfeeb7", "#feca74",
      "#ff9561", "#aa9cfc", "#c887fb", "#9cc9cc", "#ffeb80",
      "#ff8197", "#f0d0ff", "#bfe1d9">>

LEGACY_DEFAULT_COLORS ==
    <<"#f8e71c", "#e4e7d2", "#7aecec", "#bfeeb7", "#feca74",
      "#ff9561", "#aa9cfc", "#c887fb", "#9cc9cc", "#ffeb80",
      "#ff8197", "#ff8197", "#f0d0ff", "#bfe1d9", "#bfe1d9",
      "#e4e7d2", "#e4e7d2", "#e4e7d2", "#e4e7d2">>

LegacyAlpha == "95"

IndexOrders(n) ==
    {p \in [1..n -> 1..n] : \A i, j \in 1..n : i # j => p[i] # p[j]}

\* np.argsort(-f) with an ascending order where it should descend
ArgSortAscending(f) ==
    {p \in IndexOrders(Len(f)) :
        \A i \in 1..(Len(f) - 1) : f[p[i]] <= f[p[i + 1]]}

\* np.argsort(-f): the orders (1-based) that sort -f ascending. The default
\* sort is not stable, so equal counts may come in any order.
ArgSortNegated(f) ==
    {p \in IndexOrders(Len(f)) :
        \A i \in 1..(Len(f) - 1) : -f[p[i]] <= -f[p[i + 1]]}

\* a[order] of a numpy array: IndexError for an index past the end
Take(a, order) ==
    IF \E i \in 1..Len(order) : order[i] > Len(a) THEN Raised
    ELSE Return([i \in 1..Len(order) |-> a[order[i]]])

\* DisplaCyFlex._prepare_labels(labels, frequencies), with the order argsort
\* gave for the frequencies
prepare_labels(default_label, labels, frequencies, order) ==
    IF frequencies # None
    THEN LET taken == Take(labels, order)  \* order is argsort(-frequencies.value)
         IN  IF taken.raised THEN Raised
             ELSE Return(<<default_label>> \o taken.value)
    ELSE Return(<<default_label>> \o labels)

\* colors[lbl] = color: a dict keeps one value per key, the last one set
SetItem(d, k, v) == [x \in DOMAIN d \cup {k} |-> IF x = k THEN v ELSE d[x]]

\* a dict that keeps the first value set for a key
SetDefault(d, k, v) ==
    [x \in DOMAIN d \cup {k} |-> IF x \in DOMAIN d THEN d[x] ELSE v]

EmptyDict == [x \in {} |-> ""]

\* i % len(palette), for a 0-based i, as a 1-based position
Cycle(palette, i) == (i % Len(palette)) + 1

\* the loop of _generate_colors with a dict that keeps the first color
RECURSIVE GenerateColorsFirstWins(_, _, _)
GenerateColorsFirstWins(labels, alpha, n) ==
    IF n = 0 THEN EmptyDict
    ELSE SetDefault(GenerateColorsFirstWins(labels, alpha, n - 1), labels[n],
                    DEFAULT_COLORS[Cycle(DEFAULT_COLORS, n - 1)] \o alpha)

\* the loop of DisplaCyFlex._generate_colors over the first n labels
RECURSIVE GenerateColors(_, _, _)
GenerateColors(labels, alpha, n) ==
    IF n = 0 THEN EmptyDict
    ELSE SetItem(GenerateColors(labels, alpha, n - 1), labels[n],
                 DEFAULT_COLORS[Cycle(DEFAULT_COLORS, n - 1)] \o alpha)

\* DisplaCyFlex(labels, frequencies, default_label, alpha): the instance, or
\* Raised
DisplaCyFlexInit(labels, frequencies, default_label, alpha, order) ==
    LET prepared == prepare_labels(default_label, labels, frequencies, order)
    IN  IF prepared.raised THEN Raised
        ELSE LET colors == GenerateColors(prepared.value, alpha, Len(prepared.value))
             IN  Return([default_label |-> default_label,
                         alpha |-> alpha,
                         labels |-> prepared.value,
                         colors |-> colors,
                         options |-> [ents |-> prepared.value,
                                      colors |-> colors,
                                      template |-> "default_template"]])

\* the dict comprehension of config_setup over range(n)
RECURSIVE LegacyColors(_, _)
LegacyColors(lbl, n) ==
    IF n = 0 THEN EmptyDict
    ELSE SetItem(LegacyColors(lbl, n - 1), lbl[n],
                 LEGACY_DEFAULT_COLORS[Cycle(LEGACY_DEFAULT_COLORS, n - 1)]
                     \o LegacyAlpha)

\* the body of config_setup under "if not CONFIGURED": the options it binds,
\* or Raised (labels[order] with more counts than labels)
BuildOptions(labels, frequents, otherwise, order) ==
    LET taken == Take(labels, order)
    IN  IF taken.raised THEN Raised
        ELSE LET lbl == <<otherwise>> \o taken.value
             IN  Return([ents |-> lbl,
                         colors |-> LegacyColors(lbl, Len(lbl)),
                         template |-> "TPL_ENT_RTL"])

\* config_setup that builds the options on every call
ConfigSetupAlways(configured, opts, labels, frequents, otherwise, order) ==
    LET built == BuildOptions(labels, frequents, otherwise, order)
    IN  IF built.raised
        THEN [CONFIGURED |-> configured, options |-> opts, raised |-> TRUE]
        ELSE [CONFIGURED |-> TRUE, options |-> built.value, raised |-> FALSE]

\* config_setup(labels, frequents, otherwise) from the globals (configured,
\* opts): the globals after it, and whether it raised
config_setup(configured, opts, labels, frequents, otherwise, order) ==
    IF ~configured
    THEN LET built == BuildOptions(labels, frequents, otherwise, order)
         IN  IF built.raised
             THEN [CONFIGURED |-> configured, options |-> opts, raised |-> TRUE]
             ELSE [CONFIGURED |-> TRUE, options |-> built.value, raised |-> FALSE]
    ELSE [CONFIGURED |-> configured, options |-> opts, raised |-> FALSE]

-----------------------------------------------------------------------------
(* DisplaCyFlex.process_highlight *)

\* the loop of process_highlight over the first n annotations, each a
\* one-key dict {word: tag}
RECURSIVE ProcessHighlightLoop(_, _, _, _, _)
ProcessHighlightLoop(hl, kp, splt, default_label, n) ==
    IF n = 0 THEN [tags |-> <<>>, words |-> <<>>]
    ELSE LET b == ProcessHighlightLoop(hl, kp, splt, default_label, n - 1)
             word == hl[n][1]
             tag == hl[n][2]
             tag_final == IF splt \/ tag \in kp THEN tag ELSE default_label
         IN  [tags |-> Append(b.tags, tag_final), words |-> Append(b.words, word)]

process_highlight(hl, kp, splt, default_label) ==
    ProcessHighlightLoop(hl, kp, splt, default_label, Len(hl))

-----------------------------------------------------------------------------
(* The variables a specification does not use *)

NoConfig ==
    /\ CONFIGURED = FALSE /\ options = Undefined
    /\ firstCall = None /\ firstDone = None /\ ncalls = 0

NoPipeline == highlight = <<>> /\ split = TRUE /\ keep = {}
NoPalette ==
    /\ self = None /\ args = None /\ NoConfig

configVars == <<CONFIGURED, options, firstCall, firstDone, ncalls>>

pipelineVars == <<highlight, split, keep>>
paletteVars == <<self, args, CONFIGURED, options, firstCall, firstDone, ncalls>>

-----------------------------------------------------------------------------
(* SpecAlign: a caller of indices *)

InitAlign ==
    /\ pc = "start"
    /\ text \in Texts
    /\ words \in WordLists
    /\ tags = <<>> /\ ind = <<>> /\ ret = None
    /\ NoPipeline /\ NoPalette

\* spans = visualizer.indices(words, text)
CallIndices ==
    /\ pc = "start"
    /\ ind' = indices(words, text)
    /\ ret' = Return(ind')
    /\ pc' = "aligned"
    /\ UNCHANGED <<text, words, tags, pipelineVars, paletteVars>>

\* spans = display.indices(words, text)
CallLegacyIndices ==
    /\ pc = "start"
    /\ ind' = display_indices(words, text)
    /\ ret' = Return(ind')
    /\ pc' = "aligned_legacy"
    /\ UNCHANGED <<text, words, tags, pipelineVars, paletteVars>>

NextAlign == CallIndices \/ CallLegacyIndices

SpecAlign == InitAlign /\ [][NextAlign]_vars

-----------------------------------------------------------------------------
(* SpecMerge: callers of merge with the input its contract asks for         *)
(* SpecSeq: callers of merge and of structure with any lists                *)

InitMerge ==
    /\ pc = "input"
    /\ \E n \in 1..MaxLen :
          /\ tags \in [1..n -> Tags]
          /\ words \in [1..n -> MergeWords]
          /\ ind \in [1..n -> Spans]
    /\ text = <<>> /\ ret = None
    /\ NoPipeline /\ NoPalette

InitSeq ==
    /\ pc = "input"
    /\ tags \in SeqsOf(Tags, 0..MaxLen)
    /\ words \in SeqsOf(MergeWords, 0..MaxLen)
    /\ ind \in SeqsOf(Spans, 0..MaxLen)
    /\ text = <<>> /\ ret = None
    /\ NoPipeline /\ NoPalette

\* r = visualizer.merge(tags, words, ind)
CallMerge ==
    /\ pc = "input"
    /\ args' = <<tags, words, ind>>
    /\ ret' = merge(tags, words, ind)
    /\ pc' = "merged"
    /\ UNCHANGED <<text, tags, words, ind, pipelineVars, self, configVars>>

\* r = visualizer.merge(*r)
CallMergeAgain ==
    /\ pc = "merged"
    /\ ~ret.raised
    /\ args' = ret.value
    /\ ret' = merge(ret.value[1], ret.value[2], ret.value[3])
    /\ pc' = "remerged"
    /\ UNCHANGED <<text, tags, words, ind, pipelineVars, self, configVars>>

\* r = display.merge(tags, words, ind), which changes the three lists in place
CallLegacyMerge ==
    /\ pc = "input"
    /\ args' = <<tags, words, ind>>
    /\ LET r == display_merge(tags, words, ind)
       IN  /\ tags' = r.T
           /\ words' = r.words
           /\ ind' = r.ind
           /\ ret' = IF r.raised THEN Raised ELSE Return(<<r.T, r.words, r.ind>>)
    /\ pc' = "merged_legacy"
    /\ UNCHANGED <<text, pipelineVars, self, configVars>>

\* r = visualizer.structure_data(text, tags, ind, title)
CallStructureData ==
    /\ pc = "input"
    /\ \E txt \in DocTexts, title \in Titles :
          /\ text' = txt
          /\ args' = <<txt, tags, ind, title>>
          /\ ret' = structure_data(txt, tags, ind, title)
    /\ pc' = "structured"
    /\ UNCHANGED <<tags, words, ind, pipelineVars, self, configVars>>

\* r = display.structure(text, tags, ind, title)
CallLegacyStructure ==
    /\ pc = "input"
    /\ \E txt \in DocTexts, title \in Titles :
          /\ text' = txt
          /\ args' = <<txt, tags, ind, title>>
          /\ ret' = display_structure(txt, tags, ind, title)
    /\ pc' = "structured_legacy"
    /\ UNCHANGED <<tags, words, ind, pipelineVars, self, configVars>>

NextMerge == CallMerge \/ CallMergeAgain \/ CallLegacyMerge

NextSeq ==
    \/ CallMerge
    \/ CallMergeAgain
    \/ CallLegacyMerge
    \/ CallStructureData
    \/ CallLegacyStructure

SpecMerge == InitMerge /\ [][NextMerge]_vars

SpecSeq == InitSeq /\ [][NextSeq]_vars

-----------------------------------------------------------------------------
(* SpecPalette: the construction of a DisplaCyFlex *)

NoSequences == text = <<>> /\ tags = <<>> /\ words = <<>> /\ ind = <<>>
sequenceVars == <<text, tags, words, ind>>

\* the arguments of a constructor call; frequencies may be None, and the
\* long label lists come without frequencies
PaletteArgs ==
    {[labels |-> l, frequencies |-> f, default_label |-> d, alpha |-> a] :
        l \in ShortLabelLists, f \in FreqLists \cup {None},
        d \in DefaultLabels, a \in Alphas}
    \cup
    {[labels |-> l, frequencies |-> None, default_label |-> d, alpha |-> a] :
        l \in LongLabelLists, d \in DefaultLabels, a \in Alphas}

InitPalette ==
    /\ pc = "new"
    /\ args \in PaletteArgs
    /\ self = None /\ ret = None
    /\ NoSequences /\ NoPipeline /\ NoConfig

\* self = DisplaCyFlex(labels, frequencies, default_label, alpha)
Construct ==
    /\ pc = "new"
    /\ \E order \in IF args.frequencies = None THEN {<<>>}
                    ELSE ArgSortNegated(args.frequencies.value) :
          LET r == DisplaCyFlexInit(args.labels, args.frequencies,
                                    args.default_label, args.alpha, order)
          IN  /\ ret' = r
              /\ self' = IF r.raised THEN None ELSE r.value
              /\ pc' = IF r.raised THEN "raised" ELSE "constructed"
    /\ UNCHANGED <<args, sequenceVars, pipelineVars, configVars>>

NextPalette == Construct

SpecPalette == InitPalette /\ [][NextPalette]_vars

-----------------------------------------------------------------------------
(* SpecConfig: a process that calls display.config_setup again and again *)

InitConfig ==
    /\ pc = "idle"
    /\ self = None /\ args = None /\ ret = None
    /\ NoSequences /\ NoPipeline /\ NoConfig

\* config_setup(labels, frequents, otherwise)
ConfigSetup ==
    /\ ncalls < MaxCalls
    /\ \E labels \in ConfigLabels, frequents \in ConfigFreqs, otherwise \in Otherwise :
        \E order \in ArgSortNegated(frequents) :
          LET call == [labels |-> labels, frequents |-> frequents,
                       otherwise |-> otherwise]
              r == config_setup(CONFIGURED, options, labels, frequents, otherwise, order)
          IN  /\ CONFIGURED' = r.CONFIGURED
              /\ options' = r.options
              /\ ncalls' = ncalls + 1
              /\ firstCall' = IF ncalls = 0 THEN call @@ [raised |-> r.raised]
                              ELSE firstCall
              /\ firstDone' = IF firstDone = None /\ ~r.raised THEN call
                              ELSE firstDone
    /\ UNCHANGED <<pc, self, args, ret, sequenceVars, pipelineVars>>

NextConfig == ConfigSetup

SpecConfig == InitConfig /\ [][NextConfig]_vars

-----------------------------------------------------------------------------
(* SpecVisualize: DisplaCyFlex.visualize, call by call, up to render *)

TheVisualizer ==
    DisplaCyFlexInit(<<"PER", "ORG">>, None, "Misc", "95", <<>>).value

InitVisualize ==
    /\ pc = "v_start"
    /\ text \in Texts
    /\ highlight \in Highlights
    /\ split \in BOOLEAN
    /\ keep \in Keeps
    /\ self = TheVisualizer
    /\ tags = <<>> /\ words = <<>> /\ ind = <<>>
    /\ args = None /\ ret = None
    /\ NoConfig

\* tags, words = self.process_highlight(highlight, keep=keep, split=split)
VisualizeProcessHighlight ==
    /\ pc = "v_start"
    /\ LET r == process_highlight(highlight, keep, split, self.default_label)
       IN  tags' = r.tags /\ words' = r.words
    /\ pc' = "v_tagged"
    /\ UNCHANGED <<text, ind, ret, args, pipelineVars, self, configVars>>

\* indices = self.indices(words, text)
VisualizeIndices ==
    /\ pc = "v_tagged"
    /\ ind' = indices(words, text)
    /\ pc' = "v_aligned"
    /\ UNCHANGED <<text, tags, words, ret, args, pipelineVars, self, configVars>>

\* if not split: tags, words, indices = self.merge(tags, words, indices)
VisualizeMerge ==
    /\ pc = "v_aligned"
    /\ ~split
    /\ LET r == merge(tags, words, ind)
       IN  IF r.raised
           THEN /\ ret' = Raised
                /\ pc' = "v_raised"
                /\ UNCHANGED <<tags, words, ind>>
           ELSE /\ tags' = r.value[1]
                /\ words' = r.value[2]
                /\ ind' = r.value[3]
                /\ pc' = "v_merged"
                /\ UNCHANGED ret
    /\ UNCHANGED <<text, args, pipelineVars, self, configVars>>

\* structured = self.structure_data(text, tags, indices, title)
VisualizeStructureData ==
    /\ \/ pc = "v_aligned" /\ split
       \/ pc = "v_merged"
    /\ ret' = structure_data(text, tags, ind, <<>>)
    /\ pc' = "v_structured"
    /\ UNCHANGED <<text, tags, words, ind, args, pipelineVars, self, configVars>>

NextVisualize ==
    \/ VisualizeProcessHighlight
    \/ VisualizeIndices
    \/ VisualizeMerge
    \/ VisualizeStructureData

SpecVisualize == InitVisualize /\ [][NextVisualize]_vars

-----------------------------------------------------------------------------
(* Alignment: what the claims about indices speak of *)

\* text[s:e]
Slice(txt, s, e) == SubSeq(txt, s + 1, e)

RemoveAt(s, i) == SubSeq(s, 1, i - 1) \o SubSeq(s, i + 1, Len(s))

\* the word occurs in the text as a substring starting at or after base
OccursAtOrAfter(word, txt, base) ==
    \E s \in base..(Len(txt) - Len(word)) : Slice(txt, s, s + Len(word)) = word

\* the words can be placed in the text at disjoint positions in list order
Placeable(ws, txt) ==
    \E f \in [1..Len(ws) -> 0..Len(txt)] :
        /\ \A i \in 1..Len(ws) :
              /\ f[i] + Len(ws[i]) <= Len(txt)
              /\ Slice(txt, f[i], f[i] + Len(ws[i])) = ws[i]
        /\ \A i \in 1..(Len(ws) - 1) : f[i] + Len(ws[i]) <= f[i + 1]

\* one valid span per word, each the word's own text, starts strictly increasing
AlignedInOrder(ws, txt, spans) ==
    /\ Len(spans) = Len(ws)
    /\ \A i \in 1..Len(ws) :
          /\ spans[i] # Invalid
          /\ 0 <= spans[i][1] /\ spans[i][2] <= Len(txt)
          /\ Slice(txt, spans[i][1], spans[i][2]) = ws[i]
    /\ \A i \in 1..(Len(ws) - 1) : spans[i][1] < spans[i + 1][1]

Aligned == pc \in {"aligned", "aligned_legacy"}

\* C1 (as claimed): whenever the words can be placed in the text at disjoint
\* positions in list order, indices returns one valid span per word, with
\* text[start:end] == word and strictly increasing starts.
C1_PlaceableWordsAreAligned ==
    (Aligned /\ Placeable(words, text)) => AlignedInOrder(words, text, ret.value)

\* a word that does not occur at or after the cursor gets (-1, -1), leaves
\* the cursor where it was, and the other words get the spans they get
\* without it
MissIsSkipped(Loop(_, _), ws, txt, spans) ==
    /\ Len(spans) = Len(ws)
    /\ \A i \in 1..Len(ws) :
          LET before == Loop(SubSeq(ws, 1, i - 1), txt).base
              after == Loop(SubSeq(ws, 1, i), txt).base
          IN  ~OccursAtOrAfter(ws[i], txt, before) =>
                  /\ spans[i] = Invalid
                  /\ after = before
                  /\ RemoveAt(spans, i) = Loop(RemoveAt(ws, i), txt).spans

\* C3: in indices (both variants) a word that does not occur in the text at
\* or after the cursor gets the span (-1, -1) and leaves the cursor
\* unchanged: the other words' spans are those of the list without it; the
\* result has one span per word, and no span for no word.
C3_MissLeavesCursor ==
    /\ pc = "aligned" => MissIsSkipped(IndicesLoop, words, text, ret.value)
    /\ pc = "aligned_legacy" => MissIsSkipped(LegacyIndicesLoop, words, text, ret.value)

\* C3's case: a miss after the cursor has moved, followed by a word found
C3_Witness ==
    /\ pc = "aligned"
    /\ Len(words) = 3
    /\ ind[1] # Invalid /\ ind[1][2] > 0
    /\ ~OccursAtOrAfter(words[2], text, ind[1][2])
    /\ ind[2] = Invalid
    /\ ind[3] # Invalid

-----------------------------------------------------------------------------
(* Merging: what the claims about merge speak of *)

\* the k-th smallest element of a set of numbers
Nth(S, k) == CHOOSE x \in S : Cardinality({y \in S : y <= x}) = k

\* where the maximal runs of equal tags start, and where the run from i ends
RunStarts(t) == {i \in 1..Len(t) : i = 1 \/ t[i] # t[i - 1]}
RunEnd(t, i) ==
    CHOOSE e \in i..Len(t) :
        /\ \A j \in i..e : t[j] = t[i]
        /\ e = Len(t) \/ t[e + 1] # t[i]

RECURSIVE JoinWords(_)
JoinWords(ws) ==
    IF Len(ws) = 1 THEN ws[1]
    ELSE JoinWords(SubSeq(ws, 1, Len(ws) - 1)) \o Space \o ws[Len(ws)]

\* one entry per maximal run: its tag, its words joined by single spaces,
\* the start of its first span and the end of its last
RunsMerged(t, w, s) ==
    LET K == Cardinality(RunStarts(t))
        First(k) == Nth(RunStarts(t), k)
        Last(k) == RunEnd(t, First(k))
    IN  <<[k \in 1..K |-> t[First(k)]],
          [k \in 1..K |-> JoinWords(SubSeq(w, First(k), Last(k)))],
          [k \in 1..K |-> <<s[First(k)][1], s[Last(k)][2]>>]>>

NoAdjacentEqual(t) == \A i \in 1..(Len(t) - 1) : t[i] # t[i + 1]

ValidMergeInput(a) ==
    /\ Len(a[1]) > 0
    /\ Len(a[1]) = Len(a[2])
    /\ Len(a[2]) = Len(a[3])

\* C4: on non-empty equal-length input merge returns three lists of one
\* length, at most the input's, with one entry per maximal run of equal tags
\* (tag, words joined by single spaces, first start and last end), so no two
\* adjacent tags are equal; DisplaCyFlex.merge and display.merge agree.
C4_MergeIsRunCollapse ==
    (pc \in {"merged", "remerged", "merged_legacy"} /\ ValidMergeInput(args)) =>
        /\ ~ret.raised
        /\ ret.value = RunsMerged(args[1], args[2], args[3])
        /\ Len(ret.value[1]) = Len(ret.value[2])
        /\ Len(ret.value[2]) = Len(ret.value[3])
        /\ Len(ret.value[1]) <= Len(args[1])
        /\ NoAdjacentEqual(ret.value[1])
        /\ LET r == display_merge(args[1], args[2], args[3])
           IN  /\ ~r.raised
               /\ merge(args[1], args[2], args[3]) = Return(<<r.T, r.words, r.ind>>)

\* C4's case: three entries, the first two of one tag, collapse to two
C4_Witness ==
    /\ pc = "merged_legacy"
    /\ Len(args[1]) = 3
    /\ args[1][1] = args[1][2] /\ args[1][2] # args[1][3]
    /\ args[3][1] # args[3][2]
    /\ ~ret.raised
    /\ Len(ret.value[1]) = 2

\* C5: merge returns already-merged input (no two adjacent tags equal) as it
\* is, and so merging a merge's result changes nothing.
C5_MergeIdentityOnMerged ==
    /\ (pc = "merged" /\ ValidMergeInput(args) /\ NoAdjacentEqual(args[1])) =>
           ret = Return(args)
    /\ pc = "remerged" => ret = Return(args)

\* C5's case: a result that was really merged is merged again
C5_Witness ==
    /\ pc = "remerged"
    /\ Len(tags) = 3
    /\ Len(args[1]) = 2
    /\ ret = Return(args)

\* C6 (as claimed): merge on empty lists or lists of different lengths, and
\* structure_data on tags and spans of different lengths, raise and return
\* nothing.
C6_BadInputRaises ==
    /\ (pc = "merged" /\ ~ValidMergeInput(args)) => ret.raised
    /\ (pc = "structured" /\ Len(args[2]) # Len(args[3])) => ret.raised

-----------------------------------------------------------------------------
(* Structuring: what the claims about structure speak of *)

\* the entries structure is to keep, in their order
KeptIndices(t, s) == {i \in 1..Len(t) : t[i] # "O" /\ s[i][1] >= 0}

KeptEnts(t, s) ==
    [k \in 1..Cardinality(KeptIndices(t, s)) |->
        LET i == Nth(KeptIndices(t, s), k)
        IN  Ent(s[i][1], s[i][2], t[i])]

\* C7 (as claimed): for equal-length tags and spans, structure_data and
\* display.structure return text and title as given and, as entities, the
\* {start, end, label} of the entries whose tag is not 'O' and whose span is
\* valid (start >= 0), in their order.
C7_StructureFilters ==
    (pc \in {"structured", "structured_legacy"} /\ Len(args[2]) = Len(args[3])) =>
        ret = Return([text |-> args[1],
                      ents |-> KeptEnts(args[2], args[3]),
                      title |-> args[4]])

\* the same of DisplaCyFlex.structure_data alone, which the code satisfies
StructureDataFilters ==
    (pc = "structured" /\ Len(args[2]) = Len(args[3])) =>
        ret = Return([text |-> args[1],
                      ents |-> KeptEnts(args[2], args[3]),
                      title |-> args[4]])

-----------------------------------------------------------------------------
(* The document: what the claim about visualize speaks of *)

ValidEntities(ents, txt) ==
    /\ \A i \in 1..Len(ents) :
          /\ 0 <= ents[i].start
          /\ ents[i].start < ents[i].end
          /\ ents[i].end <= Len(txt)
    /\ \A i, j \in 1..Len(ents) : i < j => ents[i].end <= ents[j].start

\* C2 (as claimed): the document visualize builds holds only entities with
\* 0 <= start < end <= len(text), pairwise non-overlapping and sorted by
\* start; no entity carries a coordinate of the invalid span, also when a
\* word that was not found is merged into a run with words that were found.
C2_DocumentEntitiesValid ==
    pc = "v_structured" => ValidEntities(ret.value.ents, text)

\* the same of the document built without merging, which the code satisfies
SplitDocumentEntitiesValid ==
    (pc = "v_structured" /\ split) => ValidEntities(ret.value.ents, text)

-----------------------------------------------------------------------------
(* The palette: what the claims about labels and colors speak of *)

Range(f) == {f[x] : x \in DOMAIN f}

EqualLengthArgs ==
    args.frequencies = None \/ Len(args.frequencies.value) = Len(args.labels)

\* C8: _prepare_labels puts the default label first, then the labels: in the
\* given order without frequencies, and with equal-length frequencies as a
\* permutation of the labels in non-increasing frequency. The default label
\* is prepended also when it is one of the labels: the length is
\* len(labels) + 1.
C8_LabelsOrdered ==
    (pc = "constructed" /\ EqualLengthArgs) =>
        LET n == Len(args.labels)
            rest == Tail(self.labels)
        IN  /\ Len(self.labels) = n + 1
            /\ self.labels[1] = args.default_label
            /\ args.frequencies = None => rest = args.labels
            /\ args.frequencies # None =>
                  \E p \in IndexOrders(n) :
                      /\ rest = [i \in 1..n |-> args.labels[p[i]]]
                      /\ \A i \in 1..(n - 1) :
                            args.frequencies.value[p[i]] >=
                                args.frequencies.value[p[i + 1]]

\* C8's case: frequencies that move the last label to the front, and a
\* default label that is one of the labels
C8_Witness ==
    /\ pc = "constructed"
    /\ Len(args.labels) = 3
    /\ args.frequencies # None
    /\ Len(args.frequencies.value) = 3
    /\ args.frequencies.value[3] > args.frequencies.value[1]
    /\ args.default_label \in Range(args.labels)
    /\ self.labels[2] = args.labels[3]

PaletteColor(i, alpha) == DEFAULT_COLORS[((i - 1) % Len(DEFAULT_COLORS)) + 1] \o alpha

\* C9 (as claimed): at every position i of the ordered label list, 0-based,
\* colors[labels[i]] == PALETTE[i mod palette_size] + alpha, also with a
\* default label that is one of the labels and with more labels than colors.
C9_ColorByPosition ==
    pc = "constructed" =>
        \A i \in 1..Len(self.labels) :
            /\ self.labels[i] \in DOMAIN self.colors
            /\ self.colors[self.labels[i]] = PaletteColor(i, self.alpha)

LastPosition(labels, lbl) ==
    CHOOSE j \in 1..Len(labels) :
        /\ labels[j] = lbl
        /\ \A k \in (j + 1)..Len(labels) : labels[k] # lbl

\* C9 (amended): every label of the ordered list has a color, the one of the
\* last position the label holds in the list: colors[labels[i]] ==
\* PALETTE[j mod palette_size] + alpha for the last j with labels[j] ==
\* labels[i] (j is i for a label that occurs once).
C9_ColorByLastPosition ==
    pc = "constructed" =>
        /\ DOMAIN self.colors = Range(self.labels)
        /\ \A i \in 1..Len(self.labels) :
              self.colors[self.labels[i]] =
                  PaletteColor(LastPosition(self.labels, self.labels[i]), self.alpha)

\* C9's case: more labels than colors, and the default label among them
C9_Witness ==
    /\ pc = "constructed"
    /\ Len(self.labels) = Len(DEFAULT_COLORS) + 1
    /\ self.default_label \in Range(args.labels)
    /\ self.colors[self.labels[Len(self.labels)]] = DEFAULT_COLORS[1] \o self.alpha
    /\ self.colors[self.default_label] # DEFAULT_COLORS[1] \o self.alpha

-----------------------------------------------------------------------------
(* config_setup: what the claim about the configure-once palette speaks of *)

\* the options are those config_setup builds from the arguments of call c
BuiltFrom(c) ==
    \E order \in ArgSortNegated(c.frequents) :
        BuildOptions(c.labels, c.frequents, c.otherwise, order) = Return(options)

\* C10 (as claimed, its first half): once configured, the global options are
\* the palette built from the arguments of the first config_setup call.
C10_OptionsOfFirstCall ==
    CONFIGURED => BuiltFrom(firstCall)

\* C10 (amended): once configured, the global options are the palette built
\* from the arguments of the first config_setup call that returned (a call
\* that raises configures nothing), and every call made while CONFIGURED is
\* true leaves options and CONFIGURED as they are.
C10_ConfiguredOnce ==
    /\ [](CONFIGURED <=> firstDone # None)
    /\ [](CONFIGURED => BuiltFrom(firstDone))
    /\ [][CONFIGURED => (CONFIGURED' /\ options' = options)]_vars

\* C10's case: a first call that raised, a second that configured, a third
C10_Witness ==
    /\ ncalls = 3
    /\ firstCall.raised
    /\ CONFIGURED
    /\ Len(options.ents) = 3

=============================================================================
